---- MODULE Spec2Model ----
(***************************************************************************)
(* Farm (src/Farm.py): map and map-reduce of a composition of generator    *)
(* stages over an input iterable, sequentially (nworkers = 1) or on a      *)
(* multiprocessing pool polled round-robin (nworkers > 1).                 *)
(*                                                                         *)
(* One behaviour is one use of the class: Farm(functions, nworkers,        *)
(* batchsize) followed by one call of map(iterable_input) or of            *)
(* map_reduce(iterable_input, sum, reduce_batch).  The stages are the      *)
(* generators of src/test.py (double, increment, State.fun) and the        *)
(* reducer is the builtin sum.                                             *)
(*                                                                         *)
(* The queue-based demo of src/Pipeline.py (main and its two pools of      *)
(* workers) is a second program, with variables of its own; DemoSpec is    *)
(* its specification.                                                      *)
(***************************************************************************)
EXTENDS Integers, Sequences, FiniteSets, Bags, TLC

VARIABLES
    op,                   \* the method called: "map" or "map_reduce"
    functions,            \* self.functions, a sequence of stage names
    nworkers,             \* self.nworkers
    batchsize,            \* self.batchsize
    reduce_batch,         \* argument reduce_batch of map_reduce
    iterable_input,       \* argument iterable_input
    pc,                   \* position of the calling thread in the method
    pos,                  \* number of batches already taken from `iterable`
    primed,               \* iterations done by zip(range(nworkers), iterable)
    task,                 \* loop variable `task` of the steady-state loop
    results_handlers,     \* list of AsyncResult handles, in list order
    nreduce,              \* number of reduction tasks submitted so far
    i,                    \* scan index of get_result_and_delete_handler
    y,                    \* the TaskResult last collected
    level,                \* local variable `level` of map_reduce
    cached_results_tree,  \* list of level buffers
    yielded,              \* the batches yielded by map so far
    out,                  \* value of map_reduce: <<>> is None, <<v>> is v
    reducer_calls,        \* the lists reduce_fn was called on by the caller
    state,                \* the State object of test.py held by State.fun
    \* src/Pipeline.py
    n_workers,            \* n_workers of main
    inputs,               \* inputs of main
    main_pc,              \* position of main
    nput,                 \* iterations done by the `for` loop main is in
    in_q,                 \* the three queues, oldest entry first:
    mid_q,                \*   <<>> is None, <<v>> is v
    out_q,
    pool_double,          \* the workers of pool_double
    pool_increment,       \* the workers of pool_increment
    printed               \* the results printed by main

vars == <<op, functions, nworkers, batchsize, reduce_batch, iterable_input,
          pc, pos, primed, task, results_handlers, nreduce, i, y, level,
          cached_results_tree, yielded, out, reducer_calls, state,
          n_workers, inputs, main_pc, nput, in_q, mid_q, out_q, pool_double,
          pool_increment, printed>>

farm == <<op, functions, nworkers, batchsize, reduce_batch, iterable_input,
          pc, pos, primed, task, results_handlers, nreduce, i, y, level,
          cached_results_tree, yielded, out, reducer_calls, state>>

demo == <<n_workers, inputs, main_pc, nput, in_q, mid_q, out_q, pool_double,
          pool_increment, printed>>

config == <<op, functions, nworkers, batchsize, reduce_batch, iterable_input>>

-----------------------------------------------------------------------------
(* Bounds of the explored configurations *)

MaxN == 4
MaxWorkers == 2
MaxBatch == 2
MaxReduceBatch == 3
MaxReduceTasks == 5

-----------------------------------------------------------------------------
(* Sequence helpers: Python's sum(list_of_lists, []) and sum(list) *)

RECURSIVE Flatten(_)
Flatten(ss) == IF ss = <<>> THEN <<>> ELSE Head(ss) \o Flatten(Tail(ss))

RECURSIVE SumSeq(_)
SumSeq(s) == IF s = <<>> THEN 0 ELSE Head(s) + SumSeq(Tail(s))

Range(n) == [k \in 1..n |-> k - 1]

DeleteAt(s, k) == SubSeq(s, 1, k - 1) \o SubSeq(s, k + 1, Len(s))

None == <<>>

-----------------------------------------------------------------------------
(* grouper(iterable, n) *)

RECURSIVE GrouperLoop(_, _, _, _)
GrouperLoop(rest, n, cur, acc) ==
    IF rest = <<>>
    THEN IF cur # <<>> THEN Append(acc, cur) ELSE acc
    ELSE LET cur2 == Append(cur, Head(rest))
         IN  IF Len(cur2) = n
             THEN GrouperLoop(Tail(rest), n, <<>>, Append(acc, cur2))
             ELSE GrouperLoop(Tail(rest), n, cur2, acc)

\* mutant of grouper: the final `if out: yield out` is missing, so a short
\* last list is dropped
GrouperDropsShort(iter, n) ==
    LET all == GrouperLoop(iter, n, <<>>, <<>>)
    IN  IF all # <<>> /\ Len(all[Len(all)]) # n
        THEN SubSeq(all, 1, Len(all) - 1)
        ELSE all

grouper(iter, n) == GrouperLoop(iter, n, <<>>, <<>>)

-----------------------------------------------------------------------------
(* The stages of test.py and their composition, Farm.parallel_process *)

InitState == [received_items |-> 0, sum_items |-> 0]

RECURSIVE StateFun(_, _)
StateFun(x_list, st) ==
    IF x_list = <<>>
    THEN [data |-> <<>>, state |-> st]
    ELSE LET st2 == [received_items |-> st.received_items + 1,
                     sum_items |-> st.sum_items + Head(x_list)]
             r == StateFun(Tail(x_list), st2)
         IN  [data |-> <<<<st2.sum_items>>>> \o r.data, state |-> r.state]

double(x_list) == [k \in 1..Len(x_list) |-> <<2 * x_list[k]>>]

increment(x_list) == [k \in 1..Len(x_list) |-> <<x_list[k] + 1>>]

\* a stage that yields nothing for some of its inputs, as the class
\* docstring allows ("yields zero or more lists of results"): it passes on
\* the items x with x % 8 = 2, which are the outputs 2, 10, 18, ... of
\* [double, increment, double] for the inputs 0, 2, 4, ...
RECURSIVE select(_)
select(x_list) ==
    IF x_list = <<>> THEN <<>>
    ELSE (IF Head(x_list) % 8 = 2 THEN <<<<Head(x_list)>>>> ELSE <<>>)
            \o select(Tail(x_list))

\* one stage applied to a list: the batches it yields and the State after it
ApplyStage(func, x, st) ==
    CASE func = "double"    -> [data |-> double(x), state |-> st]
      [] func = "increment" -> [data |-> increment(x), state |-> st]
      [] func = "state"     -> StateFun(x, st)
      [] func = "select"    -> [data |-> select(x), state |-> st]

Reverse(s) == [k \in 1..Len(s) |-> s[Len(s) + 1 - k]]

\* mutant of ProcessStages: the lists a stage yields are concatenated
\* newest first
RECURSIVE ProcessStagesNewestFirst(_, _, _)
ProcessStagesNewestFirst(funcs, x, st) ==
    IF funcs = <<>>
    THEN [data |-> x, state |-> st]
    ELSE LET r == ApplyStage(Head(funcs), x, st)
         IN  ProcessStagesNewestFirst(Tail(funcs), Flatten(Reverse(r.data)),
                                      r.state)

\* x = sum(func(x), []) for each stage in turn; the result r of a stage is
\* bound as the element of a singleton set, so that it is computed once
RECURSIVE ProcessStages(_, _, _)
ProcessStages(funcs, x, st) ==
    IF funcs = <<>>
    THEN [data |-> x, state |-> st]
    ELSE CHOOSE res \in
            {ProcessStages(Tail(funcs), Flatten(r.data), r.state) :
                r \in {ApplyStage(Head(funcs), x, st)}} : TRUE

TaskResult(data, lvl) == [data |-> data, level |-> lvl]

\* mutant of parallel_process: the stages run on a copy of the State, which
\* the caller's State object does not see
ParallelProcessOnCopy(funcs, x, st) ==
    LET r == ProcessStages(funcs, x, st)
    IN  [result |-> TaskResult(r.data, 0), state |-> st]

\* parallel_process run in the calling process: the State object is shared
parallel_process(funcs, x, st) ==
    LET r == ProcessStages(funcs, x, st)
    IN  [result |-> TaskResult(r.data, 0), state |-> r.state]

\* parallel_process run by a pool worker: the bound method is pickled with a
\* copy of the Farm, so the task works on a copy of the caller's State
PoolProcess(funcs, x, st) == parallel_process(funcs, x, st).result

reduce_fn(xs) == SumSeq(xs)

\* mutant of wrap_reduce_function: the result is labelled one level too high
WrapReduceLevelAbove(cur_input, result_level) ==
    TaskResult(<<reduce_fn(cur_input)>>, result_level + 1)

wrap_reduce_function(cur_input, result_level) ==
    TaskResult(<<reduce_fn(cur_input)>>, result_level)

-----------------------------------------------------------------------------
(* Configurations *)

PlainPipeline == <<"double", "increment", "double">>
StatePipeline == <<"double", "increment", "double", "state">>
SelectPipeline == <<"double", "increment", "double", "select">>

TestInput == <<0, 1, 2, 3, 4, 5, 6, 7, 8, 9, 10, 11>>

Config(o, f, w, b, r, inp) ==
    [op |-> o, functions |-> f, nworkers |-> w, batchsize |-> b,
     reduce_batch |-> r, iterable_input |-> inp]

SmallConfigs ==
    { Config("map", f, w, b, 1, Range(n)) :
        f \in {PlainPipeline, StatePipeline}, w \in 0..MaxWorkers,
        b \in 0..MaxBatch, n \in 0..MaxN }
    \cup
    { Config("map_reduce", PlainPipeline, w, b, r, Range(n)) :
        w \in 0..MaxWorkers, b \in 0..MaxBatch, r \in 0..MaxReduceBatch,
        n \in 0..MaxN }
    \cup
    { Config("map_reduce", SelectPipeline, w, b, r, Range(n)) :
        w \in 1..MaxWorkers, b \in 1..MaxBatch, r \in 1..MaxReduceBatch,
        n \in 0..MaxN }

\* the runs of test.py (range(12)) and of the 288 scenario (reduce_batch 5)
TestConfigs ==
    { Config("map", f, w, b, 1, TestInput) :
        f \in {PlainPipeline, StatePipeline}, w \in 1..2, b \in 1..2 }
    \cup
    { Config("map_reduce", PlainPipeline, w, b, 5, TestInput) :
        w \in 1..2, b \in 1..2 }

Configs == SmallConfigs \cup TestConfigs

\* iterable = grouper(tqdm(iterable_input), self.batchsize)
iterable == grouper(iterable_input, batchsize)

NBatches == Len(iterable)

\* Pipeline.main is not running
DemoIdle ==
    /\ n_workers = 0
    /\ inputs = <<>>
    /\ main_pc = "idle"
    /\ nput = 0
    /\ in_q = <<>>
    /\ mid_q = <<>>
    /\ out_q = <<>>
    /\ pool_double = <<>>
    /\ pool_increment = <<>>
    /\ printed = <<>>

-----------------------------------------------------------------------------
Init ==
    /\ DemoIdle
    /\ \E c \in Configs :
        /\ op = c.op
        /\ functions = c.functions
        /\ nworkers = c.nworkers
        /\ batchsize = c.batchsize
        /\ reduce_batch = c.reduce_batch
        /\ iterable_input = c.iterable_input
    /\ pc = "new"
    /\ pos = 0
    /\ primed = 0
    /\ task = <<>>
    /\ results_handlers = <<>>
    /\ nreduce = 0
    /\ i = 0
    /\ y = TaskResult(<<>>, 0)
    /\ level = 0
    /\ cached_results_tree = <<>>
    /\ yielded = <<>>
    /\ out = None
    /\ reducer_calls = <<>>
    /\ state = InitState

\* Farm.__init__: the two assertions
Construct ==
    /\ pc = "new"
    /\ pc' = IF batchsize > 0 /\ nworkers > 0 THEN "constructed" ELSE "error"
    /\ UNCHANGED <<demo, config, pos, primed, task, results_handlers, nreduce, i, y,
                   level, cached_results_tree, yielded, out, reducer_calls,
                   state>>

-----------------------------------------------------------------------------
(* Farm.map, sequential path *)

CallMap ==
    /\ pc = "constructed"
    /\ op = "map"
    /\ pc' = IF nworkers = 1 THEN "seq_map" ELSE "prime"
    /\ UNCHANGED <<demo, config, pos, primed, task, results_handlers, nreduce, i, y,
                   level, cached_results_tree, yielded, out, reducer_calls,
                   state>>

\* for y in map(self.parallel_process, iterable): yield y.data
SeqMapStep ==
    /\ pc = "seq_map"
    /\ pos < NBatches
    /\ LET r == parallel_process(functions, iterable[pos + 1], state)
       IN  /\ y' = r.result
           /\ state' = r.state
           /\ yielded' = Append(yielded, r.result.data)
    /\ pos' = pos + 1
    /\ UNCHANGED <<demo, config, pc, primed, task, results_handlers, nreduce, i,
                   level, cached_results_tree, out, reducer_calls>>

SeqMapExit ==
    /\ pc = "seq_map"
    /\ pos >= NBatches
    /\ pc' = "done"
    /\ UNCHANGED <<demo, config, pos, primed, task, results_handlers, nreduce, i, y,
                   level, cached_results_tree, yielded, out, reducer_calls,
                   state>>

-----------------------------------------------------------------------------
(* The pool: pool.apply_async, the workers, get_result_and_delete_handler *)

\* number of tasks handed to the pool so far: the batches taken from
\* `iterable`, less the one held in `task` until it is submitted, and the
\* reductions
NSubmitted ==
    pos - (IF pc \in {"get_steady", "got_steady"} THEN 1 ELSE 0) + nreduce

\* the AsyncResult of a new task: `id` tells the handle objects apart, it is
\* the number of tasks submitted before this one; `done` is ready() and
\* `failed` tells that the task raised an exception instead of returning
Handle(result) ==
    [id |-> NSubmitted, result |-> result, done |-> FALSE, failed |-> FALSE]

\* h = pool.apply_async(self.parallel_process, [task]); results_handlers.append(h)
SubmitProcess(hs, t) == Append(hs, Handle(PoolProcess(functions, t, state)))

\* h = pool.apply_async(partial_reduce, [buffer, level+1]); results_handlers.append(h)
SubmitReduce(hs, buffer, lvl) ==
    Append(hs, Handle(wrap_reduce_function(buffer, lvl)))

\* mp.Pool(self.nworkers) runs the tasks in submission order, at most
\* nworkers at a time: a task can have run once fewer than nworkers
\* unfinished tasks are ahead of it
CanRun(k) ==
    Cardinality({j \in 1..(k - 1) : ~results_handlers[j].done}) < nworkers

Complete(k) ==
    /\ k \in 1..Len(results_handlers)
    /\ ~results_handlers[k].done
    /\ CanRun(k)
    /\ results_handlers' = [results_handlers EXCEPT ![k].done = TRUE]
    /\ UNCHANGED <<demo, config, pc, pos, primed, task, nreduce, i, y, level,
                   cached_results_tree, yielded, out, reducer_calls, state>>

WorkerStep == \E k \in 1..Len(results_handlers) : Complete(k)

GetPcs == {"get_steady", "get_flush", "get_drain"}

AfterGet(p) ==
    CASE p = "get_steady" -> "got_steady"
      [] p = "get_flush"  -> "got_flush"
      [] p = "get_drain"  -> "got_drain"

\* mutant of RemoveHandler: the handle is not deleted
KeepHandler(hs, k) == hs

\* mutant of RemoveHandler: the oldest handle is deleted, not the polled one
RemoveFirstHandler(hs, k) == DeleteAt(hs, 1)

\* del results_handlers[i]
RemoveHandler(hs, k) == DeleteAt(hs, k + 1)

\* i = (i+1) % len(results_handlers)
NextIndex(k, hs) == (k + 1) % Len(hs)

\* mutant of CaughtAsNotReady: `except Exception:` instead of
\* `except TimeoutError:`, the exception of a failed task is caught too
CaughtAnyException(h) == ~h.done \/ h.failed

\* the exceptions of handle.get that `except TimeoutError:` catches: only
\* the one raised because the task is not ready
CaughtAsNotReady(h) == ~h.done

\* handle.get(self.timeout) raises TimeoutError: move to the next handle
PollTimeout ==
    /\ pc \in GetPcs
    /\ Len(results_handlers) > 0
    /\ CaughtAsNotReady(results_handlers[i + 1])
    /\ i' = NextIndex(i, results_handlers)
    /\ UNCHANGED <<demo, config, pc, pos, primed, task, results_handlers, nreduce,
                   y, level, cached_results_tree, yielded, out, reducer_calls,
                   state>>

\* handle.get(self.timeout) returns: delete the handle and return its result
PollReady ==
    /\ pc \in GetPcs
    /\ Len(results_handlers) > 0
    /\ results_handlers[i + 1].done
    /\ ~results_handlers[i + 1].failed
    /\ y' = results_handlers[i + 1].result
    /\ results_handlers' = RemoveHandler(results_handlers, i)
    /\ i' = 0
    /\ pc' = AfterGet(pc)
    /\ UNCHANGED <<demo, config, pos, primed, task, nreduce, level,
                   cached_results_tree, yielded, out, reducer_calls, state>>

\* a stage or the reducer raises an exception in the worker: the task is
\* over and its AsyncResult holds the exception
FailTask(k) ==
    /\ k \in 1..Len(results_handlers)
    /\ ~results_handlers[k].done
    /\ CanRun(k)
    /\ results_handlers' =
           [results_handlers EXCEPT ![k].done = TRUE, ![k].failed = TRUE]
    /\ UNCHANGED <<demo, config, pc, pos, primed, task, nreduce, i, y, level,
                   cached_results_tree, yielded, out, reducer_calls, state>>

WorkerFails == \E k \in 1..Len(results_handlers) : FailTask(k)

\* handle.get(self.timeout) re-raises the exception of the task: it is not
\* caught, get_result_and_delete_handler and the method that called it end
\* with that exception (the handle is not deleted)
PollRaise ==
    /\ pc \in GetPcs
    /\ Len(results_handlers) > 0
    /\ results_handlers[i + 1].done
    /\ results_handlers[i + 1].failed
    /\ ~CaughtAsNotReady(results_handlers[i + 1])
    /\ pc' = "error"
    /\ UNCHANGED <<demo, config, pos, primed, task, results_handlers, nreduce, i,
                   y, level, cached_results_tree, yielded, out,
                   reducer_calls, state>>

-----------------------------------------------------------------------------
(* The priming loop and the loop heads shared by map and map_reduce *)

\* mutant of ZipTakes: the priming loop submits nworkers + 1 tasks
ZipTakesOneMore == primed < nworkers + 1 /\ pos < NBatches

\* zip(range(self.nworkers), iterable) asks range first: it takes a batch
\* only while range has a value left
ZipTakes == primed < nworkers /\ pos < NBatches

\* mutant of ZipExitPos: zip(iterable, range(nworkers)) takes one more batch
\* from iterable before it sees that range is exhausted, and drops it
ZipExitPosDropsBatch == IF pos < NBatches THEN pos + 1 ELSE pos

\* when the zip ends, no batch has been taken from iterable and dropped
ZipExitPos == pos

PrimeSubmit ==
    /\ pc = "prime"
    /\ ZipTakes
    /\ results_handlers' =
           SubmitProcess(results_handlers, iterable[pos + 1])
    /\ pos' = pos + 1
    /\ primed' = primed + 1
    /\ UNCHANGED <<demo, config, pc, task, nreduce, i, y, level,
                   cached_results_tree, yielded, out, reducer_calls, state>>

PrimeExit ==
    /\ pc = "prime"
    /\ ~ZipTakes
    /\ pos' = ZipExitPos
    /\ pc' = "steady"
    /\ UNCHANGED <<demo, config, primed, task, results_handlers, nreduce, i, y,
                   level, cached_results_tree, yielded, out, reducer_calls,
                   state>>

\* for task in iterable: ... y = self.get_result_and_delete_handler(...)
SteadyNext ==
    /\ pc = "steady"
    /\ pos < NBatches
    /\ task' = iterable[pos + 1]
    /\ pos' = pos + 1
    /\ i' = 0
    /\ pc' = "get_steady"
    /\ UNCHANGED <<demo, config, primed, results_handlers, nreduce, y, level,
                   cached_results_tree, yielded, out, reducer_calls, state>>

SteadyExit ==
    /\ pc = "steady"
    /\ pos >= NBatches
    /\ pc' = "drain"
    /\ UNCHANGED <<demo, config, pos, primed, task, results_handlers, nreduce, i, y,
                   level, cached_results_tree, yielded, out, reducer_calls,
                   state>>

\* mutant of DrainContinues: the drain loop stops with one handle left
DrainContinuesAboveOne == Len(results_handlers) > 1

\* while len(results_handlers):
DrainContinues == Len(results_handlers) > 0

\* while len(results_handlers): y = self.get_result_and_delete_handler(...)
DrainNext ==
    /\ pc = "drain"
    /\ DrainContinues
    /\ i' = 0
    /\ pc' = "get_drain"
    /\ UNCHANGED <<demo, config, pos, primed, task, results_handlers, nreduce, y,
                   level, cached_results_tree, yielded, out, reducer_calls,
                   state>>

-----------------------------------------------------------------------------
(* Farm.map, parallel path *)

MapSteadySubmit ==
    /\ pc = "got_steady"
    /\ op = "map"
    /\ results_handlers' = SubmitProcess(results_handlers, task)
    /\ yielded' = Append(yielded, y.data)
    /\ pc' = "steady"
    /\ UNCHANGED <<demo, config, pos, primed, task, nreduce, i, y, level,
                   cached_results_tree, out, reducer_calls, state>>

MapDrainYield ==
    /\ pc = "got_drain"
    /\ op = "map"
    /\ yielded' = Append(yielded, y.data)
    /\ pc' = "drain"
    /\ UNCHANGED <<demo, config, pos, primed, task, results_handlers, nreduce, i, y,
                   level, cached_results_tree, out, reducer_calls, state>>

MapDrainExit ==
    /\ pc = "drain"
    /\ op = "map"
    /\ ~DrainContinues
    /\ pc' = "done"
    /\ UNCHANGED <<demo, config, pos, primed, task, results_handlers, nreduce, i, y,
                   level, cached_results_tree, yielded, out, reducer_calls,
                   state>>

-----------------------------------------------------------------------------
(* Farm.map_reduce *)

CallMapReduce ==
    /\ pc = "constructed"
    /\ op = "map_reduce"
    /\ IF nworkers = 1
       THEN /\ pc' = "seq_reduce"
            /\ UNCHANGED cached_results_tree
       ELSE /\ pc' = "prime"
            /\ cached_results_tree' = << <<>> >>
    /\ UNCHANGED <<demo, config, pos, primed, task, results_handlers, nreduce, i, y,
                   level, yielded, out, reducer_calls, state>>

\* map(self.parallel_process, batches) in the calling process
RECURSIVE MapProcess(_, _, _)
MapProcess(funcs, batches, st) ==
    IF batches = <<>>
    THEN [results |-> <<>>, state |-> st]
    ELSE LET r == parallel_process(funcs, Head(batches), st)
             rest == MapProcess(funcs, Tail(batches), r.state)
         IN  [results |-> <<r.result>> \o rest.results, state |-> rest.state]

\* the next list yielded by grouper(map(...), reduce_batch)
NextChunk == Head(grouper(SubSeq(iterable, pos + 1, NBatches), reduce_batch))

\* y + ([] if out is None else [out])
ReducerInput(ys, acc) == ys \o acc

\* out = reduce_fn(y + ([] if out is None else [out]))
Accumulate(ys, acc) == <<reduce_fn(ReducerInput(ys, acc))>>

SeqReduceStep ==
    /\ pc = "seq_reduce"
    /\ pos < NBatches
    /\ LET r == MapProcess(functions, NextChunk, state)
           ys == Flatten([k \in 1..Len(r.results) |-> r.results[k].data])
       IN  /\ out' = Accumulate(ys, out)
           /\ reducer_calls' = Append(reducer_calls, ReducerInput(ys, out))
           /\ state' = r.state
    /\ pos' = pos + Len(NextChunk)
    /\ UNCHANGED <<demo, config, pc, primed, task, results_handlers, nreduce, i,
                   y, level, cached_results_tree, yielded>>

SeqReduceExit ==
    /\ pc = "seq_reduce"
    /\ pos >= NBatches
    /\ pc' = "done"
    /\ UNCHANGED <<demo, config, pos, primed, task, results_handlers, nreduce, i, y,
                   level, cached_results_tree, yielded, out, reducer_calls,
                   state>>

\* mutant of Extend: the data goes to level 0 whatever the level
ExtendLevel0(tree, lvl, data) == [tree EXCEPT ![1] = @ \o data]

\* if len(cached_results_tree) == level: cached_results_tree.append([])
\* cached_results_tree[level].extend(y.data)
Extend(tree, lvl, data) ==
    LET grown == IF Len(tree) = lvl THEN Append(tree, <<>>) ELSE tree
    IN  [grown EXCEPT ![lvl + 1] = @ \o data]

\* lines 207-214: store the collected result, submit the next batch
MRSteadyStore ==
    /\ pc = "got_steady"
    /\ op = "map_reduce"
    /\ level' = y.level
    /\ cached_results_tree' = Extend(cached_results_tree, y.level, y.data)
    /\ results_handlers' = SubmitProcess(results_handlers, task)
    /\ pc' = "flush"
    /\ UNCHANGED <<demo, config, pos, primed, task, nreduce, i, y, yielded, out,
                   reducer_calls, state>>

\* mutant of FlushNeeded: the buffer is flushed only once it holds more
\* than reduce_batch items
FlushNeededAbove == Len(cached_results_tree[level + 1]) > reduce_batch

\* while len(cached_results_tree[level]) >= reduce_batch
FlushNeeded == Len(cached_results_tree[level + 1]) >= reduce_batch

\* lines 220-224: submit the reduction of the level buffer and clear it
MRFlushSubmit ==
    /\ pc = "flush"
    /\ FlushNeeded
    /\ nreduce < MaxReduceTasks
    /\ results_handlers' =
           SubmitReduce(results_handlers, cached_results_tree[level + 1],
                        level + 1)
    /\ nreduce' = nreduce + 1
    /\ cached_results_tree' = [cached_results_tree EXCEPT ![level + 1] = <<>>]
    /\ i' = 0
    /\ pc' = "get_flush"
    /\ UNCHANGED <<demo, config, pos, primed, task, y, level, yielded, out,
                   reducer_calls, state>>

\* lines 225-228: store the result collected inside the flush loop
MRFlushStore ==
    /\ pc = "got_flush"
    /\ level' = y.level
    /\ cached_results_tree' = Extend(cached_results_tree, y.level, y.data)
    /\ pc' = "flush"
    /\ UNCHANGED <<demo, config, pos, primed, task, results_handlers, nreduce, i, y,
                   yielded, out, reducer_calls, state>>

MRFlushExit ==
    /\ pc = "flush"
    /\ ~FlushNeeded
    /\ pc' = "steady"
    /\ UNCHANGED <<demo, config, pos, primed, task, results_handlers, nreduce, i, y,
                   level, cached_results_tree, yielded, out, reducer_calls,
                   state>>

\* line 237: cached_results_tree[0].extend(y.data)
MRDrainStore ==
    /\ pc = "got_drain"
    /\ op = "map_reduce"
    /\ cached_results_tree' = [cached_results_tree EXCEPT ![1] = @ \o y.data]
    /\ pc' = "drain"
    /\ UNCHANGED <<demo, config, pos, primed, task, results_handlers, nreduce, i, y,
                   level, yielded, out, reducer_calls, state>>

\* mutant of FinalReduce: only level 0 is reduced
FinalReduceLevel0(tree) == reduce_fn(tree[1])

\* return reduce_fn(sum(cached_results_tree, []))
FinalReduce(tree) == reduce_fn(Flatten(tree))

MRReturn ==
    /\ pc = "drain"
    /\ op = "map_reduce"
    /\ ~DrainContinues
    /\ out' = <<FinalReduce(cached_results_tree)>>
    /\ reducer_calls' = Append(reducer_calls, Flatten(cached_results_tree))
    /\ pc' = "done"
    /\ UNCHANGED <<demo, config, pos, primed, task, results_handlers, nreduce, i,
                   y, level, cached_results_tree, yielded, state>>

-----------------------------------------------------------------------------
CallerStep ==
    \/ Construct
    \/ CallMap
    \/ SeqMapStep
    \/ SeqMapExit
    \/ PollTimeout
    \/ PollReady
    \/ PrimeSubmit
    \/ PrimeExit
    \/ SteadyNext
    \/ SteadyExit
    \/ DrainNext
    \/ MapSteadySubmit
    \/ MapDrainYield
    \/ MapDrainExit
    \/ CallMapReduce
    \/ SeqReduceStep
    \/ SeqReduceExit
    \/ MRSteadyStore
    \/ MRFlushSubmit
    \/ MRFlushStore
    \/ MRFlushExit
    \/ MRDrainStore
    \/ MRReturn

Next == CallerStep \/ WorkerStep

Spec == Init /\ [][Next]_vars

\* the runs of parallel map_reduce alone, with fairness: the caller keeps
\* running and every submitted task eventually completes
ParallelMRInit == Init /\ op = "map_reduce" /\ nworkers > 1

ParallelMRCaller ==
    \/ Construct
    \/ CallMapReduce
    \/ PollTimeout
    \/ PollReady
    \/ PrimeSubmit
    \/ PrimeExit
    \/ SteadyNext
    \/ SteadyExit
    \/ DrainNext
    \/ MRSteadyStore
    \/ MRFlushSubmit
    \/ MRFlushStore
    \/ MRFlushExit
    \/ MRDrainStore
    \/ MRReturn

ParallelMRNext == ParallelMRCaller \/ WorkerStep

ParallelMRSpec ==
    /\ ParallelMRInit
    /\ [][ParallelMRNext]_vars
    /\ WF_vars(ParallelMRCaller)
    /\ WF_vars(WorkerStep)

\* the runs of the pool (nworkers > 1) of a well-configured Farm over the
\* small inputs, with fairness: the caller keeps running and every submitted
\* task eventually completes
PollInit ==
    /\ Init
    /\ nworkers > 1 /\ batchsize >= 1 /\ reduce_batch >= 1
    /\ Len(iterable_input) <= MaxN
    /\ functions \in {PlainPipeline, StatePipeline}

PollCaller ==
    \/ Construct
    \/ CallMap
    \/ CallMapReduce
    \/ PollTimeout
    \/ PollReady
    \/ PrimeSubmit
    \/ PrimeExit
    \/ SteadyNext
    \/ SteadyExit
    \/ DrainNext
    \/ MapSteadySubmit
    \/ MapDrainYield
    \/ MapDrainExit
    \/ MRSteadyStore
    \/ MRFlushSubmit
    \/ MRFlushStore
    \/ MRFlushExit
    \/ MRDrainStore
    \/ MRReturn

PollNext == PollCaller \/ WorkerStep

PollSpec ==
    /\ PollInit
    /\ [][PollNext]_vars
    /\ WF_vars(PollCaller)
    /\ WF_vars(WorkerStep)

\* the same runs when tasks may fail: every task eventually completes or
\* fails
FaultCaller == PollCaller \/ PollRaise

FaultWorker == WorkerStep \/ WorkerFails

FaultNext == FaultCaller \/ FaultWorker

FaultSpec ==
    /\ PollInit
    /\ [][FaultNext]_vars
    /\ WF_vars(FaultCaller)
    /\ WF_vars(FaultWorker)

-----------------------------------------------------------------------------
(* src/Pipeline.py: main, its three queues and its two pools of workers.   *)
(* Each worker runs parallel_process(f, in_q, out_q) as the initializer of *)
(* its pool.  A put of a worker goes to the feeder buffer of its process,  *)
(* which the feeder thread empties into the queue, at the latest when the  *)
(* process exits; get takes the oldest entry of the queue.                 *)

MaxDemoWorkers == 2
MaxDemoInputs == 3

\* double and increment of Pipeline.py, each yielding one value
Stage(f, x) ==
    CASE f = "double"    -> 2 * x
      [] f = "increment" -> x + 1

\* a worker that has just entered parallel_process
NewWorker == [pc |-> "get", x |-> None, buf |-> <<>>, nones |-> 0]

\* lines 35-40 have run: the queues are empty, the pools are started
DemoStart ==
    /\ n_workers \in 1..MaxDemoWorkers
    /\ \E n \in 0..MaxDemoInputs : inputs = Range(n)
    /\ main_pc = "put_inputs"
    /\ nput = 0
    /\ in_q = <<>>
    /\ mid_q = <<>>
    /\ out_q = <<>>
    /\ pool_double = [w \in 1..n_workers |-> NewWorker]
    /\ pool_increment = [w \in 1..n_workers |-> NewWorker]
    /\ printed = <<>>

\* the Farm is not used by the demo
FarmIdle ==
    /\ op = "none"
    /\ functions = <<>>
    /\ nworkers = 0
    /\ batchsize = 0
    /\ reduce_batch = 0
    /\ iterable_input = <<>>
    /\ pc = "idle"
    /\ pos = 0
    /\ primed = 0
    /\ task = <<>>
    /\ results_handlers = <<>>
    /\ nreduce = 0
    /\ i = 0
    /\ y = TaskResult(<<>>, 0)
    /\ level = 0
    /\ cached_results_tree = <<>>
    /\ yielded = <<>>
    /\ out = None
    /\ reducer_calls = <<>>
    /\ state = InitState

DemoInit == FarmIdle /\ DemoStart

\* x = in_q.get(); if x is None: break
Got(worker, x) ==
    IF x = None
    THEN [worker EXCEPT !.pc = "returned", !.nones = @ + 1]
    ELSE [worker EXCEPT !.pc = "put", !.x = x]

\* for y in f(x): out_q.put(y)
Put(worker, f) ==
    [worker EXCEPT !.pc = "get", !.x = None,
                   !.buf = Append(@, <<Stage(f, worker.x[1])>>)]

DoubleGet(w) ==
    /\ pool_double[w].pc = "get"
    /\ in_q # <<>>
    /\ pool_double' = [pool_double EXCEPT ![w] = Got(@, Head(in_q))]
    /\ in_q' = Tail(in_q)
    /\ UNCHANGED <<farm, n_workers, inputs, main_pc, nput, mid_q, out_q,
                   pool_increment, printed>>

DoublePut(w) ==
    /\ pool_double[w].pc = "put"
    /\ pool_double' = [pool_double EXCEPT ![w] = Put(@, "double")]
    /\ UNCHANGED <<farm, n_workers, inputs, main_pc, nput, in_q, mid_q,
                   out_q, pool_increment, printed>>

\* the feeder thread of the worker's process writes the oldest buffered
\* entry to mid_q
DoubleFlush(w) ==
    /\ pool_double[w].buf # <<>>
    /\ mid_q' = Append(mid_q, Head(pool_double[w].buf))
    /\ pool_double' = [pool_double EXCEPT ![w].buf = Tail(@)]
    /\ UNCHANGED <<farm, n_workers, inputs, main_pc, nput, in_q, out_q,
                   pool_increment, printed>>

\* after pool_double.close() a worker whose initializer has returned
\* exits, once its feeder buffer is empty
DoubleExit(w) ==
    /\ main_pc = "join_double"
    /\ pool_double[w].pc = "returned"
    /\ pool_double[w].buf = <<>>
    /\ pool_double' = [pool_double EXCEPT ![w].pc = "exited"]
    /\ UNCHANGED <<farm, n_workers, inputs, main_pc, nput, in_q, mid_q,
                   out_q, pool_increment, printed>>

IncrementGet(w) ==
    /\ pool_increment[w].pc = "get"
    /\ mid_q # <<>>
    /\ pool_increment' = [pool_increment EXCEPT ![w] = Got(@, Head(mid_q))]
    /\ mid_q' = Tail(mid_q)
    /\ UNCHANGED <<farm, n_workers, inputs, main_pc, nput, in_q, out_q,
                   pool_double, printed>>

IncrementPut(w) ==
    /\ pool_increment[w].pc = "put"
    /\ pool_increment' = [pool_increment EXCEPT ![w] = Put(@, "increment")]
    /\ UNCHANGED <<farm, n_workers, inputs, main_pc, nput, in_q, mid_q,
                   out_q, pool_double, printed>>

IncrementFlush(w) ==
    /\ pool_increment[w].buf # <<>>
    /\ out_q' = Append(out_q, Head(pool_increment[w].buf))
    /\ pool_increment' = [pool_increment EXCEPT ![w].buf = Tail(@)]
    /\ UNCHANGED <<farm, n_workers, inputs, main_pc, nput, in_q, mid_q,
                   pool_double, printed>>

IncrementExit(w) ==
    /\ main_pc = "join_increment"
    /\ pool_increment[w].pc = "returned"
    /\ pool_increment[w].buf = <<>>
    /\ pool_increment' = [pool_increment EXCEPT ![w].pc = "exited"]
    /\ UNCHANGED <<farm, n_workers, inputs, main_pc, nput, in_q, mid_q,
                   out_q, pool_double, printed>>

DemoWorker ==
    \E w \in 1..n_workers :
        \/ DoubleGet(w)
        \/ DoublePut(w)
        \/ DoubleFlush(w)
        \/ DoubleExit(w)
        \/ IncrementGet(w)
        \/ IncrementPut(w)
        \/ IncrementFlush(w)
        \/ IncrementExit(w)

\* for x in inputs: in_q.put(x)
PutInput ==
    /\ main_pc = "put_inputs"
    /\ IF nput < Len(inputs)
       THEN /\ in_q' = Append(in_q, <<inputs[nput + 1]>>)
            /\ nput' = nput + 1
            /\ UNCHANGED main_pc
       ELSE /\ main_pc' = "put_in_none"
            /\ nput' = 0
            /\ UNCHANGED in_q
    /\ UNCHANGED <<farm, n_workers, inputs, mid_q, out_q, pool_double,
                   pool_increment, printed>>

\* for _ in range(n_workers): in_q.put(None); then pool_double.close()
PutInNone ==
    /\ main_pc = "put_in_none"
    /\ IF nput < n_workers
       THEN /\ in_q' = Append(in_q, None)
            /\ nput' = nput + 1
            /\ UNCHANGED main_pc
       ELSE /\ main_pc' = "join_double"
            /\ nput' = 0
            /\ UNCHANGED in_q
    /\ UNCHANGED <<farm, n_workers, inputs, mid_q, out_q, pool_double,
                   pool_increment, printed>>

\* mutant of Joined: join returns without waiting for the workers
JoinedAtOnce(pool) == TRUE

\* pool.join() returns: every worker process of the pool has exited
Joined(pool) == \A w \in 1..Len(pool) : pool[w].pc = "exited"

JoinDouble ==
    /\ main_pc = "join_double"
    /\ Joined(pool_double)
    /\ main_pc' = "put_mid_none"
    /\ UNCHANGED <<farm, n_workers, inputs, nput, in_q, mid_q, out_q,
                   pool_double, pool_increment, printed>>

\* for _ in range(n_workers): mid_q.put(None); then pool_increment.close()
PutMidNone ==
    /\ main_pc = "put_mid_none"
    /\ IF nput < n_workers
       THEN /\ mid_q' = Append(mid_q, None)
            /\ nput' = nput + 1
            /\ UNCHANGED main_pc
       ELSE /\ main_pc' = "join_increment"
            /\ nput' = 0
            /\ UNCHANGED mid_q
    /\ UNCHANGED <<farm, n_workers, inputs, in_q, out_q, pool_double,
                   pool_increment, printed>>

\* pool_increment.join(); out_q.put(None)
JoinIncrement ==
    /\ main_pc = "join_increment"
    /\ Joined(pool_increment)
    /\ out_q' = Append(out_q, None)
    /\ main_pc' = "read"
    /\ UNCHANGED <<farm, n_workers, inputs, nput, in_q, mid_q, pool_double,
                   pool_increment, printed>>

\* y = out_q.get(); if y==None: break; print("Result", y); at the end
\* print("Exit")
ReadResult ==
    /\ main_pc = "read"
    /\ out_q # <<>>
    /\ out_q' = Tail(out_q)
    /\ IF Head(out_q) = None
       THEN /\ main_pc' = "exit"
            /\ UNCHANGED printed
       ELSE /\ printed' = Append(printed, Head(out_q)[1])
            /\ UNCHANGED main_pc
    /\ UNCHANGED <<farm, n_workers, inputs, nput, in_q, mid_q, pool_double,
                   pool_increment>>

DemoMain ==
    \/ PutInput
    \/ PutInNone
    \/ JoinDouble
    \/ PutMidNone
    \/ JoinIncrement
    \/ ReadResult

DemoNext == DemoMain \/ DemoWorker

DemoSpec == DemoInit /\ [][DemoNext]_vars

-----------------------------------------------------------------------------
TypeOK ==
    /\ pc \in {"new", "error", "constructed", "seq_map", "seq_reduce",
               "prime", "steady", "get_steady", "got_steady", "flush",
               "get_flush", "got_flush", "drain", "get_drain", "got_drain",
               "done", "idle"}
    /\ pc \in GetPcs => i \in 0..(Len(results_handlers) - 1)
    /\ pc = "flush" => level + 1 <= Len(cached_results_tree)

\* the cap on reduction tasks never stops a run with reduce_batch >= 2
CapNotBinding ==
    (pc = "flush" /\ reduce_batch >= 2 /\ FlushNeeded)
        => nreduce < MaxReduceTasks

-----------------------------------------------------------------------------
(* Reference values the claims compare with *)

\* the multiset of the elements of a sequence
BagOfSeq(s) ==
    [v \in {s[k] : k \in DOMAIN s} |->
        Cardinality({k \in DOMAIN s : s[k] = v})]

\* the pipeline [double, increment, double] applied to one item alone
ItemOutput(x) == PoolProcess(PlainPipeline, <<x>>, InitState).data[1]

\* the full flattened pipeline output, item by item in input order
PlainOutputs(input) == [k \in 1..Len(input) |-> ItemOutput(input[k])]

\* the same for the stateless pipeline of the run, whose stages may drop
\* items
PipelineOutputs(input) ==
    Flatten([k \in 1..Len(input) |->
                PoolProcess(functions, <<input[k]>>, InitState).data])

RECURSIVE PrefixSums(_, _)
PrefixSums(s, acc) ==
    IF s = <<>> THEN <<>>
    ELSE <<acc + Head(s)>> \o PrefixSums(Tail(s), acc + Head(s))

NItems == Len(iterable_input)

\* number of input items in the batches taken from `iterable` so far
ItemsTaken == Len(Flatten(SubSeq(iterable, 1, pos)))

CeilDiv(n, b) == (n + b - 1) \div b

Parallel == nworkers > 1

-----------------------------------------------------------------------------
(* C1 *)

\* C1: when map_reduce returns for a non-empty input and reduce_batch >= 1
\* (reducer sum), the value is the sum of the whole flattened pipeline
\* output, each item counted exactly once, whatever nworkers, batchsize and
\* the completion order; for input 0..11 and reduce_batch 5 it is 288.
MapReduceValue ==
    (pc = "done" /\ op = "map_reduce" /\ iterable_input # <<>>
        /\ reduce_batch >= 1)
    => /\ out = <<reduce_fn(PipelineOutputs(iterable_input))>>
       /\ (iterable_input = TestInput /\ reduce_batch = 5) => out = <<288>>

\* a parallel run over 0..11 returned after a partial reduction was
\* collected into level 1
MapReduceValueWitness ==
    /\ pc = "done" /\ op = "map_reduce" /\ Parallel
    /\ iterable_input = TestInput /\ reduce_batch = 5
    /\ nreduce >= 1
    /\ Len(cached_results_tree) >= 2 /\ cached_results_tree[2] # <<>>
    /\ out = <<288>>

-----------------------------------------------------------------------------
(* C2 *)

\* C2: parallel map_reduce with batchsize >= 1 and reduce_batch >= 1
\* terminates: when every submitted task completes and the caller keeps
\* polling, the steady-state loop, its flush loop and the drain loop are
\* left and a value is returned.
ParallelMapReduceTerminates ==
    (op = "map_reduce" /\ Parallel /\ batchsize >= 1 /\ reduce_batch >= 1)
        => <>(pc = "done")

\* why the claim fails: with reduce_batch = 1 every collected result holds
\* at least one item, so each time the flush condition of line 219 is
\* evaluated it is true and the flush loop has no exit
FlushLoopHasNoExit ==
    (pc = "flush" /\ reduce_batch = 1 /\ functions = PlainPipeline)
        => FlushNeeded

\* with reduce_batch >= 2 the same runs do return
ParallelMapReduceTerminatesFrom2 ==
    (op = "map_reduce" /\ Parallel /\ batchsize >= 1 /\ reduce_batch >= 2)
        => <>(pc = "done")

-----------------------------------------------------------------------------
(* C3 *)

\* the result batch of each input batch, in input order
ExpectedBatches ==
    LET batches == iterable
    IN  [k \in 1..Len(batches) |->
            PoolProcess(PlainPipeline, batches[k], InitState).data]

\* C3: with the stateless pipeline, map never yields a batch twice, and
\* when it is done it has yielded exactly one result batch per input batch;
\* the multiset of yielded items is that of the item-by-item output,
\* whatever nworkers, batchsize and the completion order.
MapYieldsEachBatchOnce ==
    (op = "map" /\ functions = PlainPipeline)
    => LET expected == ExpectedBatches
       IN  /\ \A k \in 1..Len(yielded) :
                /\ \E j \in 1..Len(expected) : yielded[k] = expected[j]
                /\ \A m \in 1..Len(yielded) : yielded[m] = yielded[k] => m = k
           /\ pc = "done" =>
                /\ Len(yielded) = Len(expected)
                /\ BagOfSeq(yielded) = BagOfSeq(expected)
                /\ BagOfSeq(Flatten(yielded))
                     = BagOfSeq(PlainOutputs(iterable_input))

\* a parallel map over more batches than workers is done, having yielded
\* the second batch first
MapYieldsEachBatchOnceWitness ==
    /\ op = "map" /\ functions = PlainPipeline /\ Parallel
    /\ pc = "done"
    /\ NBatches > nworkers
    /\ yielded[1] = ExpectedBatches[2]

-----------------------------------------------------------------------------
(* C4 *)

\* C4: with nworkers = 1 and the stateless pipeline, map yields the result
\* batches in the order of the input batches, the items of each batch in
\* input order: at any time the yielded batches are the results of the
\* batches taken so far, in order; for 0..11 the items are 2, 6, ..., 46.
SequentialMapInOrder ==
    (op = "map" /\ nworkers = 1 /\ functions = PlainPipeline)
    => /\ yielded = SubSeq(ExpectedBatches, 1, pos)
       /\ Flatten(yielded) = SubSeq(PlainOutputs(iterable_input), 1, ItemsTaken)
       /\ pc = "done" =>
            /\ Flatten(yielded) = PlainOutputs(iterable_input)
            /\ iterable_input = TestInput =>
                 Flatten(yielded) = <<2, 6, 10, 14, 18, 22, 26, 30, 34, 38, 42, 46>>

SequentialMapInOrderWitness ==
    /\ op = "map" /\ nworkers = 1 /\ functions = PlainPipeline
    /\ pc = "done"
    /\ iterable_input = TestInput
    /\ batchsize = 2
    /\ Flatten(yielded) = <<2, 6, 10, 14, 18, 22, 26, 30, 34, 38, 42, 46>>

-----------------------------------------------------------------------------
(* C5 *)

ParallelMapOfTest ==
    op = "map" /\ nworkers = 2 /\ batchsize = 1 /\ functions = PlainPipeline

-----------------------------------------------------------------------------
(* C6 *)

\* C6: over an empty input map yields nothing and map_reduce returns the
\* reducer's value on the empty list, for nworkers = 1 and nworkers > 1.
EmptyInputResult ==
    (pc = "done" /\ iterable_input = <<>> /\ reduce_batch >= 1)
    => /\ op = "map" => yielded = <<>>
       /\ op = "map_reduce" => out = <<reduce_fn(<<>>)>>

-----------------------------------------------------------------------------
(* C7 *)

BadConfiguration ==
    \/ nworkers <= 0
    \/ batchsize <= 0
    \/ op = "map_reduce" /\ reduce_batch <= 0

\* C7: a run with nworkers <= 0, batchsize <= 0 or reduce_batch <= 0 is
\* rejected before any batch is read or any task submitted: it reads no
\* batch, submits no task and computes no value.
ConfigurationErrorsFailFast ==
    BadConfiguration
    => /\ pos = 0
       /\ results_handlers = <<>>
       /\ out = None

-----------------------------------------------------------------------------
(* C8 *)

-----------------------------------------------------------------------------
(* C9 *)

\* C9: with nworkers = 1 the running-sum stage sees every item of the
\* preceding stage once, in input order, and keeps its state from batch to
\* batch: the yielded items are the prefix sums of the outputs of
\* [double, increment, double]; for 0..11 they are 2, 8, 18, ..., 288.
StatefulStageSequential ==
    (op = "map" /\ nworkers = 1 /\ functions = StatePipeline)
    => LET sums == PrefixSums(PlainOutputs(iterable_input), 0)
       IN  /\ Flatten(yielded) = SubSeq(sums, 1, ItemsTaken)
           /\ state.received_items = ItemsTaken
           /\ state.sum_items = SumSeq(SubSeq(PlainOutputs(iterable_input),
                                              1, ItemsTaken))
           /\ (pc = "done" /\ iterable_input = TestInput) =>
                Flatten(yielded) =
                    <<2, 8, 18, 32, 50, 72, 98, 128, 162, 200, 242, 288>>

\* the run of test_state is done, here with two items per batch
StatefulStageSequentialWitness ==
    /\ op = "map" /\ nworkers = 1 /\ functions = StatePipeline
    /\ pc = "done"
    /\ iterable_input = TestInput
    /\ batchsize = 2
    /\ state = [received_items |-> 12, sum_items |-> 288]
    /\ yielded[6] = <<242, 288>>

-----------------------------------------------------------------------------
(* C10 *)

\* C10 as stated: in parallel map_reduce results_handlers never holds more
\* than nworkers handles (stated for reduce_batch >= 2, where the flush
\* loop is left each time).
HandlesWithinWorkers ==
    (op = "map_reduce" /\ Parallel /\ reduce_batch >= 2)
        => Len(results_handlers) <= nworkers

\* C10 as amended: in parallel map_reduce results_handlers never holds more
\* than nworkers + 1 handles, and it holds more than nworkers only between
\* the submission of a reduction task (line 220) and the collection of the
\* next result (line 224).
HandlesWithinWorkersPlusOne ==
    (op = "map_reduce" /\ Parallel)
    => /\ Len(results_handlers) <= nworkers + 1
       /\ pc # "get_flush" => Len(results_handlers) <= nworkers

\* a reduction task was submitted while nworkers tasks were outstanding
HandlesWithinWorkersPlusOneWitness ==
    /\ op = "map_reduce" /\ Parallel
    /\ reduce_batch >= 2
    /\ pc = "get_flush"
    /\ Len(results_handlers) = nworkers + 1
    /\ results_handlers[Len(results_handlers)].result.level = 1

-----------------------------------------------------------------------------
(* C11 *)

\* batches handed to the pool so far: those taken from `iterable`, less the
\* one held in `task` between lines 151 and 154
BatchesSubmitted ==
    pos - (IF pc \in {"get_steady", "got_steady"} THEN 1 ELSE 0)

\* results collected by map so far: those yielded, and the one in `y` that
\* is about to be yielded
ResultsCollected ==
    Len(yielded) + (IF pc \in {"got_steady", "got_drain"} THEN 1 ELSE 0)

Min(a, b) == IF a <= b THEN a ELSE b

\* C11: in parallel map results_handlers never holds more than nworkers
\* handles: the priming loop submits min(nworkers, number of batches)
\* tasks, a steady-state step collects one result before it submits one
\* task, and the drain loop submits nothing (every batch submitted is
\* either outstanding or collected, and in the drain loop all batches have
\* been submitted).
MapHandlesWithinWorkers ==
    (op = "map" /\ Parallel /\ batchsize >= 1)
    => /\ Len(results_handlers) <= nworkers
       /\ Len(results_handlers) + ResultsCollected = BatchesSubmitted
       /\ pc = "prime" => Len(results_handlers) = primed
       /\ pc = "steady" =>
            Len(results_handlers) = Min(nworkers, NBatches)
       /\ pc \in {"get_steady", "got_steady"} =>
            Len(results_handlers) >= Min(nworkers, NBatches) - 1
       /\ pc \in {"drain", "get_drain", "got_drain", "done"} =>
            BatchesSubmitted = NBatches

\* the steady-state loop has collected a result and refilled the window to
\* nworkers handles, with batches still to come
MapHandlesWithinWorkersWitness ==
    /\ op = "map" /\ Parallel
    /\ pc = "steady"
    /\ yielded # <<>>
    /\ pos < NBatches
    /\ Len(results_handlers) = nworkers

-----------------------------------------------------------------------------
(* C12 *)

BuffersBelowThreshold ==
    \A l \in 1..Len(cached_results_tree) :
        Len(cached_results_tree[l]) < reduce_batch

SteadyPcs == {"steady", "get_steady", "got_steady", "get_flush", "got_flush"}

DrainPcs == {"drain", "get_drain", "got_drain"}

\* C12 as stated: in parallel map_reduce, from the first collected result
\* to the final reduce, drain loop included, every level buffer holds fewer
\* than reduce_batch items except between the append of a collected result
\* and the flush check that follows it (stated for reduce_batch >= 2, where
\* the flush loop is left each time).
LevelBuffersBelowThreshold ==
    (op = "map_reduce" /\ Parallel /\ reduce_batch >= 2
        /\ pc \in SteadyPcs \cup DrainPcs)
    => BuffersBelowThreshold

\* C12 as amended: in the steady-state loop of parallel map_reduce
\* (reduce_batch >= 1) every level buffer holds fewer than reduce_batch
\* items, except the buffer of the level just appended to, between the
\* append and the flush check of line 219.
SteadyLevelBuffersBelowThreshold ==
    (op = "map_reduce" /\ Parallel /\ reduce_batch >= 1)
    => /\ pc \in SteadyPcs => BuffersBelowThreshold
       /\ pc = "flush" =>
            \A l \in 1..Len(cached_results_tree) :
                l # level + 1 => Len(cached_results_tree[l]) < reduce_batch

\* back at the head of the steady-state loop after a flush, with a partial
\* result waiting in level 1 and items in level 0
SteadyLevelBuffersBelowThresholdWitness ==
    /\ op = "map_reduce" /\ Parallel
    /\ reduce_batch >= 2
    /\ pc = "steady"
    /\ nreduce >= 1
    /\ Len(cached_results_tree) >= 2
    /\ cached_results_tree[2] # <<>>
    /\ cached_results_tree[1] # <<>>

-----------------------------------------------------------------------------
(* C13 *)

\* C13: in sequential map_reduce (nworkers = 1) every call of the reducer
\* receives at most reduce_batch + 1 items, whatever the batchsize.
SeqReducerCallSizes ==
    (op = "map_reduce" /\ nworkers = 1 /\ batchsize >= 1 /\ reduce_batch >= 1)
    => \A k \in 1..Len(reducer_calls) :
         Len(reducer_calls[k]) <= reduce_batch + 1

\* what the code bounds instead: grouper(map(...), reduce_batch) groups
\* reduce_batch results of whole batches, so a call receives at most
\* reduce_batch * batchsize items and the previous value
SeqReducerCallSizesInBatches ==
    (op = "map_reduce" /\ nworkers = 1 /\ batchsize >= 1 /\ reduce_batch >= 1)
    => \A k \in 1..Len(reducer_calls) :
         Len(reducer_calls[k]) <= reduce_batch * batchsize + 1

-----------------------------------------------------------------------------
(* C14 *)

\* the buffer of level l, empty when the tree has no such level yet
BufferAt(tree, l) == IF l + 1 <= Len(tree) THEN tree[l + 1] ELSE <<>>

\* the step appends y.data to the buffer of level l and to no other
AppendedAt(l) ==
    /\ l + 1 <= Len(cached_results_tree')
    /\ cached_results_tree'[l + 1] = BufferAt(cached_results_tree, l) \o y.data
    /\ \A m \in 0..(Len(cached_results_tree') - 1) :
         m # l => BufferAt(cached_results_tree', m)
                    = BufferAt(cached_results_tree, m)

\* the caller of map_reduce stores the result it has just collected
StoresFrom(p) == op = "map_reduce" /\ pc = p /\ pc' # p

\* C14 as stated: in parallel map_reduce every collected TaskResult, in the
\* steady-state loop and in the drain loop alike, is appended to the level
\* buffer whose index is the result's own level.
StoredAtOwnLevel ==
    [][(StoresFrom("got_steady") \/ StoresFrom("got_flush")
            \/ StoresFrom("got_drain"))
        => AppendedAt(y.level)]_vars

\* C14 as amended: a TaskResult collected in the steady-state loop (lines
\* 206 and 224) is appended to the buffer of its own level; a TaskResult
\* collected in the drain loop is appended to the buffer of level 0,
\* whatever its level.
StoredAtOwnLevelUntilDrain ==
    [][/\ (StoresFrom("got_steady") \/ StoresFrom("got_flush"))
            => AppendedAt(y.level)
       /\ StoresFrom("got_drain") => AppendedAt(0)]_vars

\* the drain loop has just put a level-1 result into level 0: the tree has
\* no level 1 and level 0 ends with the result's value
StoredAtOwnLevelUntilDrainWitness ==
    /\ op = "map_reduce" /\ Parallel
    /\ pc = "drain"
    /\ y.level = 1
    /\ reduce_batch >= 2
    /\ Len(cached_results_tree) = 1
    /\ cached_results_tree[1] # <<>>
    /\ cached_results_tree[1][Len(cached_results_tree[1])] = y.data[1]

-----------------------------------------------------------------------------
(* C15 *)

\* C15: in the steady-state loop of parallel map_reduce the level L of a
\* collected TaskResult is at most the number of level buffers, so after
\* the append of at most one empty buffer cached_results_tree[L] exists:
\* no outstanding handle carries a level above the number of buffers, the
\* levels present are 0..len-1 (a buffer above level 0 exists only once a
\* reduction was submitted) and the buffer read by the flush check exists.
CollectedLevelInRange ==
    (op = "map_reduce" /\ Parallel)
    => /\ \A k \in 1..Len(results_handlers) :
            results_handlers[k].result.level \in 0..Len(cached_results_tree)
       /\ pc \in {"got_steady", "got_flush"} =>
            y.level \in 0..Len(cached_results_tree)
       /\ pc = "flush" =>
            /\ level = y.level
            /\ level + 1 \in 1..Len(cached_results_tree)
       /\ Len(cached_results_tree) >= 2 => nreduce >= 1

\* a result of a level not yet present was collected in the flush loop: one
\* empty buffer was appended and now holds the result
CollectedLevelInRangeWitness ==
    /\ op = "map_reduce" /\ Parallel
    /\ reduce_batch >= 2
    /\ pc = "flush"
    /\ level >= 1
    /\ Len(cached_results_tree) = level + 1
    /\ cached_results_tree[level + 1] = y.data

-----------------------------------------------------------------------------
(* C16 *)

\* the pipeline produces fewer than reduce_batch items in total
FewItems ==
    /\ op = "map_reduce" /\ nworkers >= 1 /\ batchsize >= 1
    /\ reduce_batch >= 1
    /\ Len(PipelineOutputs(iterable_input)) < reduce_batch

\* no partial reduction, and the reducer is called once, on all the items
OneReducerCall ==
    /\ nreduce = 0
    /\ Len(reducer_calls) <= 1
    /\ pc = "done" =>
         /\ Len(reducer_calls) = 1
         /\ BagOfSeq(reducer_calls[1])
              = BagOfSeq(PipelineOutputs(iterable_input))

\* C16: when the pipeline produces fewer than reduce_batch items in total,
\* map_reduce submits no partial reduction and calls the reducer exactly
\* once, on the list of all produced items, for nworkers = 1 and
\* nworkers > 1, every batchsize, and stages that may emit nothing for a
\* batch (stated for non-empty inputs).
FewItemsOneReducerCall ==
    (FewItems /\ iterable_input # <<>>) => OneReducerCall

\* the parallel path does what C16 says, the empty input included
ParallelFewItemsOneReducerCall ==
    (FewItems /\ Parallel) => OneReducerCall

\* and so does the sequential path when every stage emits one item per
\* input item and the input is not empty
SequentialFewItemsOneReducerCall ==
    (FewItems /\ nworkers = 1 /\ functions = PlainPipeline
        /\ iterable_input # <<>>)
    => OneReducerCall

-----------------------------------------------------------------------------
(* C18 *)

HandleIds(hs) == [k \in 1..Len(hs) |-> hs[k].id]

\* the handles are listed oldest first
InSubmissionOrder(hs) ==
    \A j, k \in 1..Len(hs) : j < k => hs[j].id < hs[k].id

\* a successful call: the polled handle was complete, its result is
\* returned and it alone is deleted, the others keep their places
RemovesPolledHandle ==
    /\ pc \in GetPcs
    /\ results_handlers[i + 1].done
    /\ y' = results_handlers[i + 1].result
    /\ results_handlers' = DeleteAt(results_handlers, i + 1)

\* a submission: one new handle at the end, the others untouched
AppendsNewHandle ==
    /\ SubSeq(results_handlers', 1, Len(results_handlers)) = results_handlers
    /\ Len(results_handlers') = Len(results_handlers) + 1
    /\ \A k \in 1..Len(results_handlers) :
         results_handlers[k].id
            < results_handlers'[Len(results_handlers')].id

\* a timed-out poll: the polled handle was not complete and nothing but
\* the scan index changes
OnlyIndexMoves ==
    /\ ~results_handlers[i + 1].done
    /\ i' \in 0..(Len(results_handlers) - 1)
    /\ UNCHANGED <<demo, config, pc, pos, primed, task, results_handlers, nreduce,
                   y, level, cached_results_tree, yielded, out,
                   reducer_calls, state>>

PollFrameStep ==
    /\ Len(results_handlers') < Len(results_handlers) => RemovesPolledHandle
    /\ Len(results_handlers') > Len(results_handlers) => AppendsNewHandle
    /\ Len(results_handlers') = Len(results_handlers) =>
         HandleIds(results_handlers') = HandleIds(results_handlers)
    /\ (pc \in GetPcs /\ pc' = pc /\ i' # i) => OnlyIndexMoves

\* C18: a successful call of get_result_and_delete_handler removes exactly
\* the handle whose result it returns, which was complete when polled, and
\* leaves the others in their order; a timed-out poll changes only the scan
\* index, which stays within 0..len-1; a submission appends the new handle
\* at the end; so results_handlers is always in submission order.
PollFrame ==
    /\ [](InSubmissionOrder(results_handlers)
            /\ (pc \in GetPcs => i \in 0..(Len(results_handlers) - 1)))
    /\ [][PollFrameStep]_vars

\* a handle in the middle of the list was polled after a time-out on the
\* oldest one and removed: an older and a newer handle remain
PollFrameWitness ==
    /\ pc \in {"got_steady", "got_flush", "got_drain"}
    /\ Len(results_handlers) >= 2
    /\ ~results_handlers[1].done
    /\ results_handlers[2].id > results_handlers[1].id + 1

-----------------------------------------------------------------------------
(* C17 *)

\* the run has reached the bound on reduction tasks, which only the
\* endless flush loop of reduce_batch <= 1 reaches (see CapNotBinding)
StoppedAtCap == pc = "flush" /\ FlushNeeded /\ nreduce >= MaxReduceTasks

\* C17: the round-robin poll starves no handle: when the caller keeps
\* polling and every task eventually completes, every handle submitted by
\* map or map_reduce is eventually collected and removed from
\* results_handlers, complete or not when later handles are submitted,
\* although every call restarts its scan at index 0: whenever handles are
\* listed, a state follows in which all of them have been removed (a
\* removed handle is never listed again, see PollFrame).
NoHandleStarved ==
    (results_handlers # <<>>) ~> (results_handlers = <<>> \/ StoppedAtCap)

\* a call of get_result_and_delete_handler has passed over the oldest
\* handle, then not complete, and is polling a newer one while the oldest
\* is now complete
NoHandleStarvedWitness ==
    /\ pc \in GetPcs
    /\ Len(results_handlers) >= 2
    /\ i >= 1
    /\ results_handlers[1].done
    /\ ~results_handlers[i + 1].done

-----------------------------------------------------------------------------
(* C19 *)

SomeTaskFailed ==
    \E k \in 1..Len(results_handlers) : results_handlers[k].failed

\* C19: a task that fails in a worker is never treated as not ready: the
\* poll of its handle raises the task's exception, which ends
\* get_result_and_delete_handler and the call of map or map_reduce, so a
\* run in which some task fails ends with an error (the caller keeps
\* polling, every other task completes or fails) and never returns
\* normally.
TaskFailurePropagates ==
    /\ [](SomeTaskFailed => pc # "done")
    /\ SomeTaskFailed ~> (pc = "error" \/ StoppedAtCap)

\* the run ended with the exception of a task that was not the oldest
\* listed one, after results had been collected
TaskFailurePropagatesWitness ==
    /\ pc = "error"
    /\ i >= 1
    /\ results_handlers[i + 1].failed
    /\ ~results_handlers[1].failed
    /\ pos > nworkers

-----------------------------------------------------------------------------
(* C20 *)

\* the worker has taken as many None as its position tells: one once its
\* loop is left, none before
OneSentinel(worker) ==
    worker.nones = (IF worker.pc \in {"returned", "exited"} THEN 1 ELSE 0)

OnlySentinels(q) == \A k \in 1..Len(q) : q[k] = None

AllExited(pool) ==
    \A w \in 1..Len(pool) :
        pool[w].pc = "exited" /\ pool[w].buf = <<>> /\ pool[w].nones = 1

\* C20: in every interleaving of main and of the workers of the demo, each
\* worker takes exactly one None and then stops; when a None has been
\* taken from a queue no item is left in it and none can be put on it any
\* more (in_q: main has put all the inputs; mid_q: every double worker has
\* exited; out_q: every increment worker has exited); main is never
\* blocked for ever, and when it prints 'Exit' it has printed exactly one
\* result 2x+1 per input x and the three queues are empty.
DemoDeliversEveryResult ==
    main_pc # "idle"
    => /\ \A w \in 1..n_workers :
            OneSentinel(pool_double[w]) /\ OneSentinel(pool_increment[w])
       /\ (\E w \in 1..n_workers : pool_double[w].nones > 0) =>
            main_pc # "put_inputs" /\ OnlySentinels(in_q)
       /\ (\E w \in 1..n_workers : pool_increment[w].nones > 0) =>
            AllExited(pool_double) /\ OnlySentinels(mid_q)
       /\ main_pc = "exit" =>
            /\ AllExited(pool_double) /\ AllExited(pool_increment)
            /\ in_q = <<>> /\ mid_q = <<>> /\ out_q = <<>>
            /\ BagOfSeq(printed)
                 = BagOfSeq([k \in 1..Len(inputs) |-> 2 * inputs[k] + 1])
       /\ main_pc # "exit" => ENABLED DemoNext

\* main has printed 'Exit' after two workers per stage delivered the
\* results of three inputs out of input order
DemoDeliversEveryResultWitness ==
    /\ main_pc = "exit"
    /\ n_workers >= 2
    /\ Len(printed) >= 3
    /\ printed[1] > printed[2]
    /\ \A w \in 1..n_workers : pool_increment[w].nones = 1

====
